---- MODULE Spec2Model ----
(***************************************************************************)
(* Resumable crawl engine of turbo_az: TurboAzScraper.scrape_all_pages and *)
(* CheckpointManager of src/scripts/turbo_scraper.py (the same algorithm   *)
(* as src/turbo_scraper.py).  A listing is identified by its URL, modelled *)
(* as a small integer; a CarListing record is identified by the URL it was *)
(* parsed from.  The two checkpoint files live on disk and survive the     *)
(* process; everything else is process memory.                             *)
(*                                                                         *)
(* The crawl model takes a fetch as one step.  fetch_page with its retry   *)
(* loop and the proxy pool is modelled on its own (SpecFetch), as are the  *)
(* start over arbitrary files (SpecLoad) and the concurrent scrape_page of *)
(* src/turbo_scraper_async.py (SpecGather).  scrape_listing is taken apart *)
(* into fetch, parse and phone request in SpecItem and SpecBodies, the     *)
(* page loop alone is SpecDiscovery, and SpecRedeploy starts the crawler   *)
(* on a checkpoint written by src/turbo_scraper.py.  SpecRepeats is        *)
(* SpecGather over pages that list a listing more than once.  The pure     *)
(* functions extract_listing_urls (SpecExtract) and normalize_* of         *)
(* src/scripts/normalize_data.py (SpecNormalize) are applied to every      *)
(* argument of a bounded set.                                              *)
(***************************************************************************)
EXTENDS Integers, Sequences, FiniteSets, TLC

\* ---------------------------------------------------------------- bounds
MaxCards == 2
MaxPage == 2
MaxInterval == 2
MaxRuns == 2
StaleRuns == 3
ScenarioPages == 3
ScenarioPerPage == 10
ScenarioMaxInterval == 10

\* fetch_page: pool sizes and attempts explored
MaxPool == 3
MaxRetry == 3

\* scrape_page of the asyncio variant: listings on a page, semaphore
\* permits, retries of one fetch
MaxTasks == 3
MaxWorkers == 2
MaxRetries == 1

\* normalize_*: length of the column texts explored
MaxLen == 3

\* times are in milliseconds
DefaultDelayMs == 500
MainDelayMs == 2000
BackoffBaseMs == 1000
DefaultRetryCount == 3

VARIABLES
    site, end_page, auto_save_interval,
    ckptFile, dataFile,
    pc, scraped_urls, scraped_listings, should_stop,
    pages_completed, all_listing_data, data_to_scrape, page_num, idx,
    savePending, saveRet,
    runs, lastExit, failedItems,
    pageReqs, detailReqs, loadedPages, loadedScraped,
    saveOld, saveNew, killListings, diedInSave, prevFailed

config == <<site, end_page, auto_save_interval>>
disk == <<ckptFile, dataFile>>
memory == <<scraped_urls, scraped_listings, should_stop, pages_completed,
            all_listing_data, data_to_scrape, page_num, idx>>
saveArgs == <<savePending, saveRet>>
hRun == <<runs, lastExit, prevFailed>>
hKill == <<killListings, diedInSave>>
hReq == <<pageReqs, detailReqs>>
hLoaded == <<loadedPages, loadedScraped>>
hSave == <<saveOld, saveNew>>
history == <<hRun, hKill, failedItems, hReq, hLoaded, hSave>>
crawl == <<config, disk, pc, memory, saveArgs, history>>
\* all of it but the position
crawlRest == <<config, disk, memory, saveArgs, history>>

\* fetch_page and the proxy pool of one TurboAzScraper object
VARIABLES
    proxy_urls, proxy_rotation_enabled, current_proxy_index,
    delay_between_requests, retry_count,
    fpc, attempt, result,
    outcomes, proxies, rotations, delays, backoffs

pool == <<proxy_urls, proxy_rotation_enabled>>
fetchArgs == <<delay_between_requests, retry_count>>
hFetch == <<outcomes, proxies, rotations, delays, backoffs>>
transport == <<pool, current_proxy_index, fetchArgs, fpc, attempt, result,
               hFetch>>

\* scrape_page of the asyncio variant (AsyncTurboAzScraper)
VARIABLES
    max_workers, retry_attempts, semaphore, scraped_ids, page, tasks

gather == <<max_workers, retry_attempts, semaphore, scraped_ids, page, tasks>>

\* scrape_listing: the body fetch_page returned for the item in hand, the
\* CarListing being built from it, and what each appended record holds
VARIABLES
    html, listing, details

item == <<html, listing, details>>

\* functions of one argument, looked at one call at a time: the listing page
\* handed to extract_listing_urls and what it returned, and the column text
\* handed to a normalize_* function of normalize_data.py and what it returned
VARIABLES
    page_html, extracted, xpc, text, value, fn

calls == <<page_html, extracted, xpc, text, value, fn>>

outsideCrawl == <<transport, gather, item, calls>>
outsideFetch == <<crawl, gather, item, calls>>
outsideGather == <<crawl, transport, item, calls>>
outsideItem == <<transport, gather, calls>>
outsideCalls == <<crawl, transport, gather, item>>

vars == <<crawl, transport, gather, item, calls>>

\* ---------------------------------------------------------------- helpers
Range(s) == {s[i] : i \in 1..Len(s)}

NoDup(s) == \A i, j \in 1..Len(s) : s[i] = s[j] => i = j

Urls == 1..MaxCards

\* what a listing page can hold: distinct listing cards
PageLists == {s \in UNION {[1..n -> Urls] : n \in 0..MaxCards} : NoDup(s)}

start_page == 1

RECURSIVE Flatten(_, _)
\* the cards of pages 1..p, in page order
Flatten(s, p) == IF p < start_page THEN <<>> ELSE Flatten(s, p - 1) \o s[p]

\* listings are numbered in the order the listing pages first show them
\* (the numbering of the listings is immaterial to the crawler)
InOrder(cards) ==
    \A i \in 1..Len(cards) :
        \/ cards[i] = 1
        \/ \E j \in 1..(i - 1) : cards[j] \in {cards[i], cards[i] - 1}

\* the listing pages of the site: at most MaxCards cards in all, and one
\* listing may show on several pages
Sites ==
    {s \in [start_page..MaxPage -> PageLists] :
        /\ Len(Flatten(s, MaxPage)) <= MaxCards
        /\ InOrder(Flatten(s, MaxPage))}

\* ------------------------------------------------------------ file contents
NoCkpt == [st |-> "absent", scraped_urls |-> {}, pending_urls |-> <<>>,
           pages_completed |-> {}, total_scraped |-> 0]

NoData == [st |-> "absent", listings |-> <<>>]

\* open(path, 'w') truncates the file before anything is written: what is
\* left is not a JSON document
Truncated(empty) == [empty EXCEPT !.st = "partial"]

\* the checkpoint document built by save_checkpoint
CheckpointDoc(urls, pending, listings, pages) ==
    [st |-> "full", scraped_urls |-> urls, pending_urls |-> pending,
     pages_completed |-> pages, total_scraped |-> Len(listings)]

DataDoc(listings) == [st |-> "full", listings |-> listings]

\* a file that holds a JSON document of another shape than the one
\* written: for the checkpoint "not_object" (a list, a number, a string,
\* null), "no_total" (an object without total_scraped) and "bad_fields" (an
\* object with total_scraped whose scraped_urls, pending_urls or
\* pages_completed is not a list); for the data backup "wrong_shape"
\* (anything but a list of CarListing records)
Misshapen(empty, shape) == [empty EXCEPT !.st = shape]

\* load_checkpoint lines 124-135: the document when it parses and line 130
\* can read its total_scraped; None for a missing file and for whatever
\* raises inside the try
load_checkpoint(f) == IF f.st \in {"full", "bad_fields"} THEN f ELSE NoCkpt

\* load_data_backup lines 137-149: the listings, or [] for a missing file
\* and for whatever raises inside the try
load_data_backup(f) == IF f.st = "full" THEN f.listings ELSE <<>>

CrawlState(urls, pending, listings, pages) ==
    [scraped_urls |-> urls, pending_urls |-> pending,
     listings |-> listings, pages_completed |-> pages]

\* lines 614-615 and the constructor: nothing scraped, nothing pending
EmptyState == CrawlState({}, <<>>, <<>>, {})

\* the state scrape_all_pages rehydrates from the two files at startup
Rehydrate(cf, df) ==
    IF load_checkpoint(cf).st = "full"
    THEN CrawlState(cf.scraped_urls, cf.pending_urls, load_data_backup(df),
                    cf.pages_completed)
    ELSE EmptyState

\* ------------------------------------------------ the scraper's transport
\* the proxy_url argument of __init__: None, one URL, or a list of URLs
\* (endpoints are numbered 1..n in list order)
ProxyArgs ==
    {[kind |-> "none", urls |-> <<>>], [kind |-> "str", urls |-> <<1>>]}
      \cup {[kind |-> "list", urls |-> [i \in 1..n |-> i]] : n \in 0..MaxPool}

\* __init__ lines 168-179
InitProxy(proxy_url) ==
    /\ proxy_urls = proxy_url.urls
    /\ proxy_rotation_enabled = (proxy_url.kind = "list")
    /\ current_proxy_index = 0

\* no call of fetch_page has been made
NoCall ==
    /\ fpc = "idle"
    /\ attempt = 0
    /\ result = "none"
    /\ outcomes = <<>>
    /\ proxies = <<>>
    /\ rotations = 0
    /\ delays = <<>>
    /\ backoffs = <<>>

\* the crawl model keeps fetch_page as one step (ScrapePageOk, DetailOk,
\* ...); its transport stays as constructed by main with no PROXY_URL
NoFetch ==
    /\ InitProxy([kind |-> "none", urls |-> <<>>])
    /\ delay_between_requests = MainDelayMs
    /\ retry_count = DefaultRetryCount
    /\ NoCall

\* no AsyncTurboAzScraper is running
NoGather ==
    /\ max_workers = 1
    /\ retry_attempts = 0
    /\ semaphore = 1
    /\ scraped_ids = {}
    /\ page = [at |-> "idle", retry |-> 0]
    /\ tasks = <<>>

\* CarListing() before anything is parsed into it; fields stands for the
\* parsed columns together, phone_response for how the phone request ended
NoListing ==
    [fields |-> "none", listing_id |-> FALSE, seller_phone |-> "",
     phone_response |-> "none"]

\* no scrape_listing call is looked into
NoItem ==
    /\ html = "none"
    /\ listing = NoListing
    /\ details = <<>>

\* a listing page as extract_listing_urls sees it: whether the title of the
\* "ELANLAR" section is found, whether a tz-container with div.products
\* follows it, the cards of the promoted sections and the cards of the
\* regular section, in document order
Layout(title, container, promoted, regular) ==
    [title |-> title, container |-> container, promoted |-> promoted,
     regular |-> regular]

\* Python's None and an int, as one kind of value
None == [none |-> TRUE, int |-> 0]

Number(n) == [none |-> FALSE, int |-> n]

\* no function call is looked into
NoCalls ==
    /\ page_html = Layout(FALSE, FALSE, <<>>, <<>>)
    /\ extracted = <<>>
    /\ xpc = "idle"
    /\ text = <<>>
    /\ value = None
    /\ fn = "idle"

\* ------------------------------------------------------------------- Init
InitProcess(s, e, n) ==
    /\ site = s
    /\ end_page = e
    /\ auto_save_interval = n
    /\ pc = "start"
    /\ scraped_urls = {}
    /\ scraped_listings = <<>>
    /\ should_stop = FALSE
    /\ pages_completed = {}
    /\ all_listing_data = <<>>
    /\ data_to_scrape = <<>>
    /\ page_num = start_page
    /\ idx = 0
    /\ savePending = <<>>
    /\ saveRet = "start"
    /\ runs = 1
    /\ lastExit = "none"
    /\ failedItems = {}
    /\ pageReqs = {}
    /\ detailReqs = {}
    /\ loadedPages = {}
    /\ loadedScraped = {}
    /\ saveOld = EmptyState
    /\ saveNew = EmptyState
    /\ killListings = <<>>
    /\ diedInSave = FALSE
    /\ prevFailed = {}

\* a first start: neither file exists
InitWith(s, e, n) ==
    /\ ckptFile = NoCkpt
    /\ dataFile = NoData
    /\ InitProcess(s, e, n)

Init ==
    /\ \E s \in Sites, n \in 1..MaxInterval : InitWith(s, MaxPage, n)
    /\ NoFetch
    /\ NoGather
    /\ NoItem
    /\ NoCalls

\* ------------------------------------------------------- scrape_all_pages
\* lines 605-618: rehydrate from the checkpoint, or start empty
Load ==
    /\ pc = "start"
    /\ load_checkpoint(ckptFile).st # "bad_fields"
    /\ LET checkpoint == load_checkpoint(ckptFile) IN
       IF checkpoint.st = "full"
       THEN /\ scraped_urls' = checkpoint.scraped_urls
            /\ all_listing_data' = checkpoint.pending_urls
            /\ pages_completed' = checkpoint.pages_completed
            /\ scraped_listings' = load_data_backup(dataFile)
            /\ loadedPages' = checkpoint.pages_completed
            /\ loadedScraped' = checkpoint.scraped_urls
       ELSE /\ all_listing_data' = <<>>
            /\ pages_completed' = {}
            /\ UNCHANGED <<scraped_urls, scraped_listings>>
            /\ loadedPages' = {}
            /\ loadedScraped' = {}
    /\ page_num' = start_page
    /\ pageReqs' = {}
    /\ detailReqs' = {}
    /\ failedItems' = {}
    /\ killListings' = <<>>
    /\ diedInSave' = FALSE
    /\ saveOld' = EmptyState
    /\ saveNew' = EmptyState
    /\ pc' = "page_loop"
    /\ UNCHANGED outsideCrawl
    /\ UNCHANGED <<config, disk, should_stop, data_to_scrape, idx, saveArgs,
                   hRun>>

\* lines 609-611: set() or list() of a field that is not a list raises
\* TypeError out of scrape_all_pages; main logs "Fatal error" and ends
LoadRaises ==
    /\ pc = "start"
    /\ load_checkpoint(ckptFile).st = "bad_fields"
    /\ pc' = "raised"
    /\ UNCHANGED outsideCrawl
    /\ UNCHANGED <<config, disk, memory, saveArgs, history>>

\* entry of save_checkpoint(scraped_urls, pending, listings, pages)
BeginSave(urls, pending, listings, pages, ret) ==
    /\ savePending' = pending
    /\ saveRet' = ret
    /\ saveOld' = Rehydrate(ckptFile, dataFile)
    /\ saveNew' = CrawlState(urls, pending, listings, pages)
    /\ pc' = "save_open"

\* line 620: the page range is exhausted
PagesEnd ==
    /\ pc = "page_loop"
    /\ page_num > end_page
    /\ pc' = "filter"
    /\ UNCHANGED outsideCrawl
    /\ UNCHANGED <<config, disk, memory, saveArgs, history>>

\* lines 621-622: stop flag seen before a page discovery
PageStop ==
    /\ pc = "page_loop"
    /\ page_num <= end_page
    /\ should_stop
    /\ pc' = "filter"
    /\ UNCHANGED outsideCrawl
    /\ UNCHANGED <<config, disk, memory, saveArgs, history>>

\* lines 624-626: page already processed
PageSkip ==
    /\ pc = "page_loop"
    /\ page_num <= end_page
    /\ ~should_stop
    /\ page_num \in pages_completed
    /\ page_num' = page_num + 1
    /\ UNCHANGED outsideCrawl
    /\ UNCHANGED <<config, disk, pc, scraped_urls, scraped_listings,
                   should_stop, pages_completed, all_listing_data,
                   data_to_scrape, idx, saveArgs, history>>

\* a page loop that does not look at the stop flag
PageBeginRegardless ==
    /\ pc = "page_loop"
    /\ page_num <= end_page
    /\ page_num \notin pages_completed
    /\ pageReqs' = pageReqs \cup {page_num}
    /\ pc' = "page_fetch"
    /\ UNCHANGED outsideCrawl
    /\ UNCHANGED <<config, disk, memory, saveArgs, hRun, hKill, failedItems,
                   detailReqs, hLoaded, hSave>>

\* line 628: the listing-page request is issued
PageBegin ==
    /\ pc = "page_loop"
    /\ page_num <= end_page
    /\ ~should_stop
    /\ page_num \notin pages_completed
    /\ pageReqs' = pageReqs \cup {page_num}
    /\ pc' = "page_fetch"
    /\ UNCHANGED outsideCrawl
    /\ UNCHANGED <<config, disk, memory, saveArgs, hRun, hKill, failedItems,
                   detailReqs, hLoaded, hSave>>

\* a page that is left unmarked after its discovery
PageDoneUnmarked(listing_data) ==
    /\ all_listing_data' = all_listing_data \o listing_data
    /\ pages_completed' = pages_completed
    /\ page_num' = page_num + 1
    /\ BeginSave(scraped_urls, all_listing_data', scraped_listings,
                 pages_completed', "page_loop")
    /\ UNCHANGED outsideCrawl
    /\ UNCHANGED <<config, disk, scraped_urls, scraped_listings, should_stop,
                   data_to_scrape, idx, hRun, hKill, hReq,
                   hLoaded,
                   failedItems>>

\* lines 628-638 with the listing data scrape_page returned
PageDone(listing_data) ==
    /\ all_listing_data' = all_listing_data \o listing_data
    /\ pages_completed' = pages_completed \cup {page_num}
    /\ page_num' = page_num + 1
    /\ BeginSave(scraped_urls, all_listing_data', scraped_listings,
                 pages_completed', "page_loop")
    /\ UNCHANGED outsideCrawl
    /\ UNCHANGED <<config, disk, scraped_urls, scraped_listings, should_stop,
                   data_to_scrape, idx, hRun, hKill, hReq,
                   hLoaded,
                   failedItems>>

\* scrape_page: fetch_page returned the page
ScrapePageOk ==
    /\ pc = "page_fetch"
    /\ PageDone(site[page_num])

\* a page loop that an empty page ends
ScrapePageFailBreaks ==
    /\ pc = "page_fetch"
    /\ pc' = "filter"
    /\ UNCHANGED outsideCrawl
    /\ UNCHANGED <<config, disk, memory, saveArgs, history>>

\* scrape_page: fetch_page returned None, scrape_page returns []
ScrapePageFail ==
    /\ pc = "page_fetch"
    /\ PageDone(<<>>)

\* scrape_page line 597: extract_listing_urls raised on the body (urljoin
\* rejects an href such as "http://["), and nothing between it and main
\* catches
ScrapePageRaises ==
    /\ pc = "page_fetch"
    /\ pc' = "raised"
    /\ UNCHANGED outsideCrawl
    /\ UNCHANGED <<config, disk, memory, saveArgs, history>>

\* line 641 without its condition: nothing is dropped
RemoveScrapedNone(data, urls) == data

\* line 641
RemoveScraped(data, urls) == SelectSeq(data, LAMBDA u : u \notin urls)

\* a pending item as src/turbo_scraper.py stores it: the URL string itself
\* and not a dict with 'url' and 'badges'
AsString(url) == 0 - url

IsString(listing_item) == listing_item < 0

\* line 641 on a list that holds a URL string: item['url'] raises TypeError
FilterRaises ==
    /\ pc = "filter"
    /\ \E i \in 1..Len(all_listing_data) : IsString(all_listing_data[i])
    /\ pc' = "raised"
    /\ UNCHANGED outsideCrawl
    /\ UNCHANGED <<config, disk, memory, saveArgs, history>>

FilterScraped ==
    /\ pc = "filter"
    /\ \A i \in 1..Len(all_listing_data) : ~IsString(all_listing_data[i])
    /\ data_to_scrape' = RemoveScraped(all_listing_data, scraped_urls)
    /\ idx' = 0
    /\ pc' = "drain_loop"
    /\ UNCHANGED outsideCrawl
    /\ UNCHANGED <<config, disk, scraped_urls, scraped_listings, should_stop,
                   pages_completed, all_listing_data, page_num, saveArgs,
                   history>>

\* line 645: enumerate is exhausted
DrainEnd ==
    /\ pc = "drain_loop"
    /\ idx >= Len(data_to_scrape)
    /\ pc' = "final"
    /\ UNCHANGED outsideCrawl
    /\ UNCHANGED <<config, disk, memory, saveArgs, history>>

\* lines 646-648
DrainStop ==
    /\ pc = "drain_loop"
    /\ idx < Len(data_to_scrape)
    /\ should_stop
    /\ pc' = "final"
    /\ UNCHANGED outsideCrawl
    /\ UNCHANGED <<config, disk, memory, saveArgs, history>>

\* lines 645, 650: next item of data_to_scrape
DrainNext ==
    /\ pc = "drain_loop"
    /\ idx < Len(data_to_scrape)
    /\ ~should_stop
    /\ idx' = idx + 1
    /\ pc' = "scrape_listing"
    /\ UNCHANGED outsideCrawl
    /\ UNCHANGED <<config, disk, scraped_urls, scraped_listings, should_stop,
                   pages_completed, all_listing_data, data_to_scrape,
                   page_num, saveArgs, history>>

\* scrape_listing lines 556-557
ScrapeListingStopped ==
    /\ pc = "scrape_listing"
    /\ should_stop
    /\ pc' = "auto_save"
    /\ UNCHANGED outsideCrawl
    /\ UNCHANGED <<config, disk, memory, saveArgs, history>>

\* scrape_listing line 561: the detail request is issued
ScrapeListingFetch ==
    /\ pc = "scrape_listing"
    /\ ~should_stop
    /\ detailReqs' = detailReqs \cup {data_to_scrape[idx]}
    /\ pc' = "detail_fetch"
    /\ UNCHANGED outsideCrawl
    /\ UNCHANGED <<config, disk, memory, saveArgs, hRun, hKill, failedItems,
                   pageReqs, hLoaded, hSave>>

\* scrape_listing lines 565-580 and line 652
DetailOk ==
    /\ pc = "detail_fetch"
    /\ scraped_urls' = scraped_urls \cup {data_to_scrape[idx]}
    /\ scraped_listings' = Append(scraped_listings, data_to_scrape[idx])
    /\ pc' = "auto_save"
    /\ UNCHANGED outsideCrawl
    /\ UNCHANGED <<config, disk, should_stop, pages_completed,
                   all_listing_data, data_to_scrape, page_num, idx, saveArgs,
                   history>>

\* scrape_listing lines 562-563: fetch_page exhausted its attempts
DetailFail ==
    /\ pc = "detail_fetch"
    /\ failedItems' = failedItems \cup {data_to_scrape[idx]}
    /\ pc' = "auto_save"
    /\ UNCHANGED outsideCrawl
    /\ UNCHANGED <<config, disk, memory, saveArgs, hRun, hKill, hReq,
                   hLoaded, hSave>>

\* line 656
Remaining(data, i) == SubSeq(data, i + 1, Len(data))

\* lines 655-662
AutoSave ==
    /\ pc = "auto_save"
    /\ idx % auto_save_interval = 0
    /\ BeginSave(scraped_urls, Remaining(data_to_scrape, idx),
                 scraped_listings, pages_completed, "drain_loop")
    /\ UNCHANGED outsideCrawl
    /\ UNCHANGED <<config, disk, memory, hRun, hKill, failedItems, hReq,
                   hLoaded>>

AutoSaveSkip ==
    /\ pc = "auto_save"
    /\ idx % auto_save_interval # 0
    /\ pc' = "drain_loop"
    /\ UNCHANGED outsideCrawl
    /\ UNCHANGED <<config, disk, memory, saveArgs, history>>

\* lines 666-669 and clear_checkpoint: the checkpoint file is removed first
FinalClear ==
    /\ pc = "final"
    /\ ~should_stop
    /\ ckptFile' = NoCkpt
    /\ pc' = "clear_data"
    /\ UNCHANGED outsideCrawl
    /\ UNCHANGED <<config, dataFile, memory, saveArgs, history>>

\* clear_checkpoint that leaves the data backup behind
ClearDataForgotten ==
    /\ pc = "clear_data"
    /\ pc' = "done"
    /\ UNCHANGED outsideCrawl
    /\ UNCHANGED <<config, disk, memory, saveArgs, history>>

\* clear_checkpoint: then the data backup
ClearData ==
    /\ pc = "clear_data"
    /\ dataFile' = NoData
    /\ pc' = "done"
    /\ UNCHANGED outsideCrawl
    /\ UNCHANGED <<config, ckptFile, memory, saveArgs, history>>

\* lines 670-677: the final save of an interrupted run
FinalSave ==
    /\ pc = "final"
    /\ should_stop
    /\ BeginSave(scraped_urls, <<>>, scraped_listings, pages_completed, "done")
    /\ UNCHANGED outsideCrawl
    /\ UNCHANGED <<config, disk, memory, hRun, hKill, failedItems, hReq,
                   hLoaded>>

\* -------------------------------------------------------- save_checkpoint
\* line 113: open(checkpoint_file, 'w')
SaveOpenCkpt ==
    /\ pc = "save_open"
    /\ ckptFile' = Truncated(NoCkpt)
    /\ pc' = "save_dump"
    /\ UNCHANGED outsideCrawl
    /\ UNCHANGED <<config, dataFile, memory, saveArgs, history>>

\* line 114: json.dump and close
SaveDumpCkpt ==
    /\ pc = "save_dump"
    /\ ckptFile' = CheckpointDoc(scraped_urls, savePending, scraped_listings,
                                 pages_completed)
    /\ pc' = "save_data"
    /\ UNCHANGED outsideCrawl
    /\ UNCHANGED <<config, dataFile, memory, saveArgs, history>>

\* line 117: no listings, the data backup is left as it is
SaveSkipData ==
    /\ pc = "save_data"
    /\ scraped_listings = <<>>
    /\ pc' = saveRet
    /\ UNCHANGED outsideCrawl
    /\ UNCHANGED <<config, disk, memory, saveArgs, history>>

\* line 119: open(data_file, 'w')
SaveOpenData ==
    /\ pc = "save_data"
    /\ scraped_listings # <<>>
    /\ dataFile' = Truncated(NoData)
    /\ pc' = "save_data_dump"
    /\ UNCHANGED outsideCrawl
    /\ UNCHANGED <<config, ckptFile, memory, saveArgs, history>>

\* line 120: json.dump and close
SaveDumpData ==
    /\ pc = "save_data_dump"
    /\ dataFile' = DataDoc(scraped_listings)
    /\ pc' = saveRet
    /\ UNCHANGED outsideCrawl
    /\ UNCHANGED <<config, ckptFile, memory, saveArgs, history>>

SavePcs == {"save_open", "save_dump", "save_data", "save_data_dump"}

\* ------------------------------------------------------------ environment
\* _signal_handler: SIGINT or SIGTERM
Signal ==
    /\ pc \notin {"start", "done"}
    /\ ~should_stop
    /\ should_stop' = TRUE
    /\ UNCHANGED outsideCrawl
    /\ UNCHANGED <<config, disk, pc, scraped_urls, scraped_listings,
                   pages_completed, all_listing_data, data_to_scrape,
                   page_num, idx, saveArgs, hRun, hKill, failedItems, hReq,
                   hLoaded, hSave>>

\* a new process: TurboAzScraper.__init__, while fewer than limit
\* processes have run
StartProcess(limit) ==
    /\ runs < limit
    /\ runs' = runs + 1
    /\ pc' = "start"
    /\ scraped_urls' = {}
    /\ scraped_listings' = <<>>
    /\ should_stop' = FALSE
    /\ pages_completed' = {}
    /\ all_listing_data' = <<>>
    /\ data_to_scrape' = <<>>
    /\ page_num' = start_page
    /\ idx' = 0
    /\ savePending' = <<>>
    /\ saveRet' = "start"
    /\ UNCHANGED outsideCrawl
    /\ UNCHANGED <<config, disk, failedItems, hReq, hLoaded, hSave>>

NewProcess == StartProcess(MaxRuns)

\* the process dies (SIGKILL, power loss); the files stay as they are
KillWithin(limit) ==
    /\ pc \notin {"start", "done"}
    /\ lastExit' = "kill"
    /\ diedInSave' = (pc \in SavePcs)
    /\ killListings' = scraped_listings
    /\ prevFailed' = {}
    /\ StartProcess(limit)

Kill == KillWithin(MaxRuns)

\* the run has returned and the crawler is started again
Rerun ==
    /\ pc = "done"
    /\ lastExit' = "finished"
    /\ prevFailed' = IF should_stop THEN {} ELSE failedItems \ scraped_urls
    /\ UNCHANGED hKill
    /\ NewProcess

SaveCheckpoint ==
    SaveOpenCkpt \/ SaveDumpCkpt \/ SaveSkipData \/ SaveOpenData \/ SaveDumpData

Next ==
    \/ Load
    \/ PagesEnd \/ PageStop \/ PageSkip \/ PageBegin
    \/ ScrapePageOk \/ ScrapePageFail
    \/ FilterScraped
    \/ DrainEnd \/ DrainStop \/ DrainNext
    \/ ScrapeListingStopped \/ ScrapeListingFetch
    \/ DetailOk \/ DetailFail
    \/ AutoSave \/ AutoSaveSkip
    \/ FinalClear \/ ClearData \/ FinalSave
    \/ SaveCheckpoint
    \/ Signal \/ Kill \/ Rerun

Spec == Init /\ [][Next]_vars

\* ------------------------------------------------- the clean-run scenario
\* pages 1..ScenarioPages, each with ScenarioPerPage listings of its own
ScenarioSite ==
    [p \in 1..ScenarioPages |->
        [i \in 1..ScenarioPerPage |-> (p - 1) * ScenarioPerPage + i]]

InitScenario ==
    /\ \E n \in 1..ScenarioMaxInterval :
           InitWith(ScenarioSite, ScenarioPages, n)
    /\ NoFetch
    /\ NoGather
    /\ NoItem
    /\ NoCalls

\* every fetch succeeds, no signal, no kill
NextScenario ==
    \/ Load
    \/ PagesEnd \/ PageBegin
    \/ ScrapePageOk
    \/ FilterScraped
    \/ DrainEnd \/ DrainNext
    \/ ScrapeListingFetch
    \/ DetailOk
    \/ AutoSave \/ AutoSaveSkip
    \/ FinalClear \/ ClearData
    \/ SaveCheckpoint

SpecScenario == InitScenario /\ [][NextScenario]_vars

\* ----------------------------------------------------- kill and resume
\* every fetch succeeds and no signal arrives, but the process may die at
\* any point and is started again
NextResume ==
    \/ Load
    \/ PagesEnd \/ PageSkip \/ PageBegin
    \/ ScrapePageOk
    \/ FilterScraped
    \/ DrainEnd \/ DrainNext
    \/ ScrapeListingFetch
    \/ DetailOk
    \/ AutoSave \/ AutoSaveSkip
    \/ FinalClear \/ ClearData
    \/ SaveCheckpoint
    \/ Kill

SpecResume == Init /\ [][NextResume]_vars

\* the same, with room for a process that dies, one that starts over and
\* dies, and one that resumes
KillAgain == KillWithin(StaleRuns)

NextStale ==
    \/ Load
    \/ PagesEnd \/ PageSkip \/ PageBegin
    \/ ScrapePageOk
    \/ FilterScraped
    \/ DrainEnd \/ DrainNext
    \/ ScrapeListingFetch
    \/ DetailOk
    \/ AutoSave \/ AutoSaveSkip
    \/ FinalClear \/ ClearData
    \/ SaveCheckpoint
    \/ KillAgain

SpecStale == Init /\ [][NextStale]_vars

\* ------------------------------------------- scrape_listing, step by step
\* what fetch_page can hand to scrape_listing besides None: the detail page
\* the selectors were written for, a page of another shape, and markup the
\* parser gives up on
Bodies == {"page", "other", "rejected"}

\* how the request for the phone numbers can end: numbers, a 200 without
\* numbers, another status, an exception of the session, a body that is
\* not JSON
PhoneResponses == {"phones", "no_phones", "status", "exception", "bad_json"}

PhoneFailures == {"status", "exception", "bad_json"}

\* scrape_listing lines 561-562: fetch_page returned a body
DetailBody(body) ==
    /\ pc = "detail_fetch"
    /\ html' = body
    /\ listing' = NoListing
    /\ pc' = "parse"
    /\ UNCHANGED outsideItem
    /\ UNCHANGED <<crawlRest, details>>

\* parse_listing_page: every selector is guarded, so a page of another
\* shape leaves the columns empty; listing_id is cut out of the URL
ParseOk(has_id) ==
    /\ pc = "parse"
    /\ html \in {"page", "other"}
    /\ listing' = [NoListing EXCEPT
                      !.fields = IF html = "page" THEN "filled" ELSE "empty",
                      !.listing_id = has_id]
    /\ pc' = IF has_id THEN "phone_fetch" ELSE "listing_ok"
    /\ UNCHANGED outsideItem
    /\ UNCHANGED <<crawlRest, html, details>>

\* scrape_listing lines 581-583: parse_listing_page raised
ParseRaises ==
    /\ pc = "parse"
    /\ html = "rejected"
    /\ pc' = "auto_save"
    /\ UNCHANGED outsideItem
    /\ UNCHANGED <<crawlRest, item>>

\* a failed phone request that takes the record with it
PhoneLost(response) ==
    /\ pc = "phone_fetch"
    /\ response \in PhoneFailures
    /\ listing' = [listing EXCEPT !.phone_response = response]
    /\ pc' = "auto_save"
    /\ UNCHANGED outsideItem
    /\ UNCHANGED <<crawlRest, html, details>>

\* fetch_phone_numbers and scrape_listing lines 573-576
Phone(response) ==
    /\ pc = "phone_fetch"
    /\ listing' = [listing EXCEPT
                      !.seller_phone =
                          IF response = "phones" THEN "phones" ELSE "",
                      !.phone_response = response]
    /\ pc' = "listing_ok"
    /\ UNCHANGED outsideItem
    /\ UNCHANGED <<crawlRest, html, details>>

\* scrape_listing lines 578-579 and scrape_all_pages lines 651-652
ListingDone ==
    /\ pc = "listing_ok"
    /\ scraped_urls' = scraped_urls \cup {data_to_scrape[idx]}
    /\ scraped_listings' = Append(scraped_listings, data_to_scrape[idx])
    /\ details' = Append(details, listing)
    /\ pc' = "auto_save"
    /\ UNCHANGED outsideItem
    /\ UNCHANGED <<config, disk, should_stop, pages_completed,
                   all_listing_data, data_to_scrape, page_num, idx, saveArgs,
                   history, html, listing>>

ScrapeListing ==
    \/ DetailFail
    \/ \E body \in Bodies : DetailBody(body)
    \/ \E has_id \in BOOLEAN : ParseOk(has_id)
    \/ ParseRaises
    \/ \E response \in PhoneResponses : Phone(response)
    \/ ListingDone

\* one uninterrupted run whose scrape_listing calls are looked into
NextItem ==
    \/ Load
    \/ PagesEnd \/ PageBegin
    \/ ScrapePageOk \/ ScrapePageFail
    \/ FilterScraped
    \/ DrainEnd \/ DrainNext
    \/ ScrapeListingFetch
    \/ ScrapeListing
    \/ AutoSave \/ AutoSaveSkip
    \/ FinalClear \/ ClearData
    \/ SaveCheckpoint

SpecItem == Init /\ [][NextItem]_vars

\* the same run over listing pages whose body can be malformed as well
NextBodies ==
    \/ NextItem
    \/ ScrapePageRaises

SpecBodies == Init /\ [][NextBodies]_vars

\* ------------------------------------------------ discovery on its own
\* the page loop of scrape_all_pages up to line 640, with stops and with
\* processes that die and are started again; no item is scraped, so every
\* save_checkpoint finds `listings` empty at line 117
NextDiscovery ==
    \/ Load
    \/ PagesEnd \/ PageStop \/ PageSkip \/ PageBegin
    \/ ScrapePageOk \/ ScrapePageFail
    \/ SaveOpenCkpt \/ SaveDumpCkpt \/ SaveSkipData
    \/ Signal \/ Kill

SpecDiscovery == Init /\ [][NextDiscovery]_vars

\* ------------------------- a start over the files of the older build
\* the checkpoint document built by save_checkpoint of src/turbo_scraper.py
OldCheckpointDoc(urls, pending, listings, pages) ==
    CheckpointDoc(urls, [i \in 1..Len(pending) |-> AsString(pending[i])],
                  listings, pages)

\* what the older build can have left: the pages completed so far, the
\* records of the completed URLs, and pending URLs that are not completed
InitRedeploy ==
    /\ \E listings \in PageLists, pending \in PageLists,
          pages \in SUBSET (start_page..MaxPage) :
          /\ Range(pending) \cap Range(listings) = {}
          /\ ckptFile = OldCheckpointDoc(Range(listings), pending, listings,
                                         pages)
          /\ dataFile = IF listings = <<>> THEN NoData
                        ELSE DataDoc(listings)
    /\ \E s \in Sites, n \in 1..MaxInterval : InitProcess(s, MaxPage, n)
    /\ NoFetch
    /\ NoGather
    /\ NoItem
    /\ NoCalls

\* the run of src/scripts/turbo_scraper.py that follows
NextRedeploy ==
    \/ Load
    \/ PagesEnd \/ PageSkip \/ PageBegin
    \/ ScrapePageOk \/ ScrapePageFail
    \/ FilterRaises \/ FilterScraped
    \/ DrainEnd \/ DrainNext
    \/ ScrapeListingFetch
    \/ DetailOk \/ DetailFail
    \/ AutoSave \/ AutoSaveSkip
    \/ FinalClear \/ ClearData
    \/ SaveCheckpoint

SpecRedeploy == InitRedeploy /\ [][NextRedeploy]_vars

\* ------------------------------------------- a start over any two files
\* what scraper_checkpoint.json can hold when the crawler starts
CkptFiles ==
    {CheckpointDoc(urls, pending, listings, pages) :
        urls \in SUBSET Urls, pending \in PageLists, listings \in PageLists,
        pages \in SUBSET (start_page..MaxPage)}
      \cup {NoCkpt, Truncated(NoCkpt)}
      \cup {Misshapen(NoCkpt, shape) :
               shape \in {"not_object", "no_total", "bad_fields"}}

\* what scraped_data_backup.json can hold when the crawler starts
DataFiles ==
    {DataDoc(listings) : listings \in PageLists}
      \cup {NoData, Truncated(NoData), Misshapen(NoData, "wrong_shape")}

InitLoad ==
    /\ ckptFile \in CkptFiles
    /\ dataFile \in DataFiles
    /\ InitProcess([p \in 1..MaxPage |-> <<>>], MaxPage, 1)
    /\ NoFetch
    /\ NoGather
    /\ NoItem
    /\ NoCalls

NextLoad == Load \/ LoadRaises

SpecLoad == InitLoad /\ [][NextLoad]_vars

\* ---------------------------------------------------------------- fetch_page
\* what one session.get can end in: a status line or an exception
Statuses == {"200", "403", "429", "404", "500"}
Responses == Statuses \cup {"TimeoutError", "ClientError", "Exception"}

\* _get_current_proxy returns None for an empty pool
NoProxy == 0

\* lines 197-201
get_current_proxy ==
    IF proxy_urls = <<>> THEN NoProxy
    ELSE proxy_urls[current_proxy_index + 1]

\* a rotation that steps over the next endpoint
rotate_proxy_skip ==
    IF ~proxy_rotation_enabled \/ Len(proxy_urls) <= 1
    THEN current_proxy_index
    ELSE (current_proxy_index + 2) % Len(proxy_urls)

\* lines 203-208: the value of current_proxy_index after _rotate_proxy
rotate_proxy ==
    IF ~proxy_rotation_enabled \/ Len(proxy_urls) <= 1
    THEN current_proxy_index
    ELSE (current_proxy_index + 1) % Len(proxy_urls)

\* a fixed pause between attempts
BackoffFixed(a) == BackoffBaseMs

\* line 281: asyncio.sleep(2 ** attempt), in milliseconds
Backoff(a) == BackoffBaseMs * 2 ^ a

Delays == {0, DefaultDelayMs, MainDelayMs}

\* a scraper object as __init__ leaves it, and the arguments of its calls
InitFetch ==
    /\ InitWith([p \in 1..MaxPage |-> <<>>], MaxPage, 1)
    /\ \E proxy_url \in ProxyArgs : InitProxy(proxy_url)
    /\ delay_between_requests \in Delays
    /\ retry_count \in 0..MaxRetry
    /\ NoCall
    /\ NoGather
    /\ NoItem
    /\ NoCalls

\* line 254: a call of fetch_page; the cursor is the object's, the rest
\* is local to the call
FetchPage ==
    /\ fpc = "idle"
    /\ fpc' = "loop"
    /\ attempt' = 0
    /\ result' = "pending"
    /\ outcomes' = <<>>
    /\ proxies' = <<>>
    /\ rotations' = 0
    /\ delays' = <<>>
    /\ backoffs' = <<>>
    /\ UNCHANGED outsideFetch
    /\ UNCHANGED <<pool, current_proxy_index, fetchArgs>>

\* lines 257-262: the rate delay, then the request through the current
\* proxy
AttemptBegin ==
    /\ fpc = "loop"
    /\ attempt < retry_count
    /\ delays' = Append(delays, delay_between_requests)
    /\ proxies' = Append(proxies, get_current_proxy)
    /\ fpc' = "get"
    /\ UNCHANGED outsideFetch
    /\ UNCHANGED <<pool, current_proxy_index, fetchArgs, attempt,
                   result, outcomes, rotations, backoffs>>

\* a loop that gives up one attempt early
ExhaustedEarly ==
    /\ fpc = "loop"
    /\ attempt >= retry_count - 1
    /\ result' = "None"
    /\ fpc' = "idle"
    /\ UNCHANGED outsideFetch
    /\ UNCHANGED <<pool, current_proxy_index, fetchArgs, attempt,
                   hFetch>>

\* lines 283-284: the loop has run out
Exhausted ==
    /\ fpc = "loop"
    /\ attempt >= retry_count
    /\ result' = "None"
    /\ fpc' = "idle"
    /\ UNCHANGED outsideFetch
    /\ UNCHANGED <<pool, current_proxy_index, fetchArgs, attempt,
                   hFetch>>

\* a failed attempt that calls _rotate_proxy
Rotated(r) ==
    /\ fpc = "get"
    /\ outcomes' = Append(outcomes, r)
    /\ current_proxy_index' = rotate_proxy
    /\ rotations' = rotations + 1
    /\ fpc' = "after"
    /\ UNCHANGED outsideFetch
    /\ UNCHANGED <<pool, fetchArgs, attempt, result, proxies, delays,
                   backoffs>>

\* a failed attempt that only logs
Logged(r) ==
    /\ fpc = "get"
    /\ outcomes' = Append(outcomes, r)
    /\ fpc' = "after"
    /\ UNCHANGED outsideFetch
    /\ UNCHANGED <<pool, current_proxy_index, fetchArgs, attempt,
                   result, proxies, rotations, delays, backoffs>>

\* lines 263-264
Status200 ==
    /\ fpc = "get"
    /\ outcomes' = Append(outcomes, "200")
    /\ result' = "text"
    /\ fpc' = "idle"
    /\ UNCHANGED outsideFetch
    /\ UNCHANGED <<pool, current_proxy_index, fetchArgs, attempt,
                   proxies, rotations, delays, backoffs>>

\* 403 or 429 rotating only when another attempt follows
StatusBlockedBetween(status) ==
    IF attempt < retry_count - 1 THEN Rotated(status) ELSE Logged(status)

\* lines 265-268
StatusBlocked(status) == Rotated(status)

\* every status other than 200 rotating
StatusOtherRotates(status) == Rotated(status)

\* lines 269-270
StatusOther(status) == Logged(status)

\* lines 271-273
Timeout == Rotated("TimeoutError")

\* lines 274-276
ClientError == Rotated("ClientError")

\* lines 277-278
OtherException == Logged("Exception")

\* lines 280-281
BackoffSleep ==
    /\ fpc = "after"
    /\ attempt < retry_count - 1
    /\ backoffs' = Append(backoffs, Backoff(attempt))
    /\ attempt' = attempt + 1
    /\ fpc' = "loop"
    /\ UNCHANGED outsideFetch
    /\ UNCHANGED <<pool, current_proxy_index, fetchArgs, result,
                   outcomes, proxies, rotations, delays>>

\* line 280 is false after the last attempt
BackoffSkip ==
    /\ fpc = "after"
    /\ attempt >= retry_count - 1
    /\ attempt' = attempt + 1
    /\ fpc' = "loop"
    /\ UNCHANGED outsideFetch
    /\ UNCHANGED <<pool, current_proxy_index, fetchArgs, result,
                   hFetch>>

NextFetch ==
    \/ FetchPage
    \/ AttemptBegin \/ Exhausted
    \/ Status200
    \/ \E status \in {"403", "429"} : StatusBlocked(status)
    \/ \E status \in {"404", "500"} : StatusOther(status)
    \/ Timeout \/ ClientError \/ OtherException
    \/ BackoffSleep \/ BackoffSkip

SpecFetch == InitFetch /\ [][NextFetch]_vars

\* ------------------------------------- AsyncTurboAzScraper.scrape_page
\* src/turbo_scraper_async.py.  asyncio runs one coroutine at a time and
\* switches only at an await, so each action is the code between two
\* awaits.  A fetch is at "get" while its session.get is in flight and at
\* "sleep" while it waits retry_delay before the next try.
InitGather ==
    /\ InitWith([p \in 1..MaxPage |-> <<>>], MaxPage, 1)
    /\ NoFetch
    /\ max_workers \in 1..MaxWorkers
    /\ retry_attempts \in 0..MaxRetries
    /\ semaphore = max_workers
    /\ scraped_ids \in SUBSET (1..MaxTasks)
    /\ page = [at |-> "start", retry |-> 0]
    /\ tasks = <<>>
    /\ NoItem
    /\ NoCalls

\* fetch lines 123 and 130: another try is left
CanRetry(f) == f.retry < retry_attempts

\* get_listing_urls_from_page line 165: fetch, outside the semaphore
PageGet ==
    /\ page.at = "start"
    /\ page' = [at |-> "get", retry |-> 0]
    /\ UNCHANGED outsideGather
    /\ UNCHANGED <<max_workers, retry_attempts, semaphore, scraped_ids,
                   tasks>>

\* fetch lines 122-135 for the page: retry after retry_delay, or None and
\* scrape_page returns at line 367
PageFail ==
    /\ page.at = "get"
    /\ page' = IF CanRetry(page) THEN [page EXCEPT !.at = "sleep"]
               ELSE [page EXCEPT !.at = "done"]
    /\ UNCHANGED outsideGather
    /\ UNCHANGED <<max_workers, retry_attempts, semaphore, scraped_ids,
                   tasks>>

\* fetch lines 125-126 and 132-133: the recursive call after the sleep
PageRetry ==
    /\ page.at = "sleep"
    /\ page' = [at |-> "get", retry |-> page.retry + 1]
    /\ UNCHANGED outsideGather
    /\ UNCHANGED <<max_workers, retry_attempts, semaphore, scraped_ids,
                   tasks>>

\* scrape_page lines 364-373: the page lists n listings and one task per
\* listing is handed to asyncio.gather
PageListed(ids) ==
    /\ page.at = "get"
    /\ IF ids = <<>>
       THEN /\ page' = [page EXCEPT !.at = "done"]
            /\ tasks' = <<>>
       ELSE /\ page' = [page EXCEPT !.at = "gather"]
            /\ tasks' = [i \in 1..Len(ids) |->
                            [id |-> ids[i], at |-> "created", retry |-> 0]]
    /\ UNCHANGED outsideGather
    /\ UNCHANGED <<max_workers, retry_attempts, semaphore, scraped_ids>>

\* a page that lists n listings, each once
PageOk == \E n \in 0..MaxTasks : PageListed([i \in 1..n |-> i])

\* a page that lists up to MaxTasks cards, where a listing can have more
\* than one card (get_listing_urls_from_page takes the cards of the
\* promoted sections and of the regular one alike)
PageRepeats ==
    \E n \in 0..MaxTasks : \E ids \in [1..n -> 1..MaxTasks] : PageListed(ids)

\* scrape_listing_details lines 238-240: already scraped, no request
TaskSkip(i) ==
    /\ tasks[i].at = "created"
    /\ tasks[i].id \in scraped_ids
    /\ tasks' = [tasks EXCEPT ![i].at = "none"]
    /\ UNCHANGED outsideGather
    /\ UNCHANGED <<max_workers, retry_attempts, semaphore, scraped_ids,
                   page>>

\* a task that does not wait for a permit
TaskEnterUnbounded(i) ==
    /\ tasks[i].at = "created"
    /\ tasks[i].id \notin scraped_ids
    /\ tasks' = [tasks EXCEPT ![i].at = "get"]
    /\ UNCHANGED outsideGather
    /\ UNCHANGED <<max_workers, retry_attempts, semaphore, scraped_ids,
                   page>>

\* lines 242-243: async with self.semaphore, then the detail request
TaskEnter(i) ==
    /\ tasks[i].at = "created"
    /\ tasks[i].id \notin scraped_ids
    /\ semaphore > 0
    /\ semaphore' = semaphore - 1
    /\ tasks' = [tasks EXCEPT ![i].at = "get"]
    /\ UNCHANGED outsideGather
    /\ UNCHANGED <<max_workers, retry_attempts, scraped_ids, page>>

\* fetch lines 122-135 inside the semaphore: retry, or None and the task
\* returns None at line 245, which releases the permit
TaskFail(i) ==
    /\ tasks[i].at = "get"
    /\ IF CanRetry(tasks[i])
       THEN /\ tasks' = [tasks EXCEPT ![i].at = "sleep"]
            /\ UNCHANGED semaphore
       ELSE /\ tasks' = [tasks EXCEPT ![i].at = "none"]
            /\ semaphore' = semaphore + 1
    /\ UNCHANGED outsideGather
    /\ UNCHANGED <<max_workers, retry_attempts, scraped_ids, page>>

TaskRetry(i) ==
    /\ tasks[i].at = "sleep"
    /\ tasks' = [tasks EXCEPT ![i].at = "get", ![i].retry = @ + 1]
    /\ UNCHANGED outsideGather
    /\ UNCHANGED <<max_workers, retry_attempts, semaphore, scraped_ids,
                   page>>

\* lines 247-310: the page is parsed and get_phone_number issues the
\* phone request, still inside the semaphore
TaskOk(i) ==
    /\ tasks[i].at = "get"
    /\ tasks' = [tasks EXCEPT ![i].at = "phone"]
    /\ UNCHANGED outsideGather
    /\ UNCHANGED <<max_workers, retry_attempts, semaphore, scraped_ids,
                   page>>

\* a task that keeps its permit when parsing raises
TaskErrorLeaks(i) ==
    /\ tasks[i].at = "get"
    /\ tasks' = [tasks EXCEPT ![i].at = "none"]
    /\ UNCHANGED outsideGather
    /\ UNCHANGED <<max_workers, retry_attempts, semaphore, scraped_ids,
                   page>>

\* lines 358-360: parsing raised, the task returns None
TaskError(i) ==
    /\ tasks[i].at = "get"
    /\ tasks' = [tasks EXCEPT ![i].at = "none"]
    /\ semaphore' = semaphore + 1
    /\ UNCHANGED outsideGather
    /\ UNCHANGED <<max_workers, retry_attempts, scraped_ids, page>>

\* lines 310-356: the phone request has ended (fetch_json gives None on any
\* failure), the record is returned and the permit released
PhoneDone(i) ==
    /\ tasks[i].at = "phone"
    /\ tasks' = [tasks EXCEPT ![i].at = "dict"]
    /\ semaphore' = semaphore + 1
    /\ UNCHANGED outsideGather
    /\ UNCHANGED <<max_workers, retry_attempts, scraped_ids, page>>

\* a scrape_page that goes on while tasks are still running
GatheredEarly ==
    /\ page.at = "gather"
    /\ scraped_ids' = scraped_ids \cup
           {tasks[i].id : i \in {j \in 1..Len(tasks) : tasks[j].at = "dict"}}
    /\ page' = [page EXCEPT !.at = "batch"]
    /\ UNCHANGED outsideGather
    /\ UNCHANGED <<max_workers, retry_attempts, semaphore, tasks>>

\* scrape_page lines 373-379: gather has every result
Gathered ==
    /\ page.at = "gather"
    /\ \A i \in 1..Len(tasks) : tasks[i].at \in {"none", "dict"}
    /\ scraped_ids' = scraped_ids \cup
           {tasks[i].id : i \in {j \in 1..Len(tasks) : tasks[j].at = "dict"}}
    /\ page' = [page EXCEPT !.at = "batch"]
    /\ UNCHANGED outsideGather
    /\ UNCHANGED <<max_workers, retry_attempts, semaphore, tasks>>

\* how a call of _save_checkpoint can end: nothing to do, the file written,
\* or open/json.dump raised and lines 108-109 logged it
SaveOutcomes == {"skipped", "written", "failed"}

\* scrape_page lines 381-383: the save every save_frequency listings
BatchSave(outcome) ==
    /\ page.at = "batch"
    /\ page' = [page EXCEPT !.at = "done"]
    /\ UNCHANGED outsideGather
    /\ UNCHANGED <<max_workers, retry_attempts, semaphore, scraped_ids,
                   tasks>>

\* scrape_pages lines 399-400: the save after each page; _save_checkpoint
\* returns normally whatever happened
PageSave(outcome) ==
    /\ page.at = "done"
    /\ page' = [page EXCEPT !.at = IF outcome = "failed" THEN "save_failed"
                                   ELSE "saved"]
    /\ UNCHANGED outsideGather
    /\ UNCHANGED <<max_workers, retry_attempts, semaphore, scraped_ids,
                   tasks>>

\* scrape_pages lines 396-397 and 403-406: the next page of the loop
NextPage ==
    /\ page.at \in {"saved", "save_failed"}
    /\ page' = [at |-> "start", retry |-> 0]
    /\ tasks' = <<>>
    /\ UNCHANGED outsideGather
    /\ UNCHANGED <<max_workers, retry_attempts, semaphore, scraped_ids>>

NextGather ==
    \/ PageGet \/ PageFail \/ PageRetry \/ PageOk
    \/ \E i \in 1..Len(tasks) :
          \/ TaskSkip(i) \/ TaskEnter(i)
          \/ TaskFail(i) \/ TaskRetry(i)
          \/ TaskOk(i) \/ TaskError(i)
          \/ PhoneDone(i)
    \/ Gathered
    \/ \E outcome \in SaveOutcomes : BatchSave(outcome)
    \/ \E outcome \in SaveOutcomes : PageSave(outcome)
    \/ NextPage

SpecGather == InitGather /\ [][NextGather]_vars

\* the same over pages on which a listing can show more than once
NextRepeats ==
    \/ PageGet \/ PageFail \/ PageRetry \/ PageRepeats
    \/ \E i \in 1..Len(tasks) :
          \/ TaskSkip(i) \/ TaskEnter(i)
          \/ TaskFail(i) \/ TaskRetry(i)
          \/ TaskOk(i) \/ TaskError(i)
          \/ PhoneDone(i)
    \/ Gathered
    \/ \E outcome \in SaveOutcomes : BatchSave(outcome)
    \/ \E outcome \in SaveOutcomes : PageSave(outcome)
    \/ NextPage

SpecRepeats == InitGather /\ [][NextRepeats]_vars

\* --------------------------------------------------- page discovery
\* the listing pages looked at: any cards in the promoted sections and in
\* the regular one, with or without the markup of the section title and of
\* the container after it
Layouts ==
    {Layout(title, container, promoted, regular) :
        title \in BOOLEAN, container \in BOOLEAN,
        promoted \in PageLists, regular \in PageLists}

\* extract_listing_urls: the products of the container after the "ELANLAR"
\* title; when no such title is found, every div.products-i of the page
extract_listing_urls(l) ==
    IF l.title
    THEN IF l.container THEN l.regular ELSE <<>>
    ELSE l.promoted \o l.regular

\* get_listing_urls_from_page of the asyncio build: every div.products-i
get_listing_urls_from_page(l) == l.promoted \o l.regular

InitExtract ==
    /\ InitWith([p \in 1..MaxPage |-> <<>>], MaxPage, 1)
    /\ NoFetch
    /\ NoGather
    /\ NoItem
    /\ page_html \in Layouts
    /\ extracted = <<>>
    /\ xpc = "call"
    /\ text = <<>>
    /\ value = None
    /\ fn = "idle"

\* scrape_page line 597
ExtractListingUrls ==
    /\ xpc = "call"
    /\ extracted' = extract_listing_urls(page_html)
    /\ xpc' = "extract_listing_urls"
    /\ UNCHANGED outsideCalls
    /\ UNCHANGED <<page_html, text, value, fn>>

\* AsyncTurboAzScraper.get_listing_urls_from_page lines 169-181
GetListingUrls ==
    /\ xpc = "call"
    /\ extracted' = get_listing_urls_from_page(page_html)
    /\ xpc' = "get_listing_urls_from_page"
    /\ UNCHANGED outsideCalls
    /\ UNCHANGED <<page_html, text, value, fn>>

NextExtract == ExtractListingUrls \/ GetListingUrls

SpecExtract == InitExtract /\ [][NextExtract]_vars

\* ------------------------------------------------- normalize_data.py
\* the characters column texts are made of here: three digits, the space
\* and the comma that group thousands, and a letter for units and words
Digits == {"0", "1", "5"}

Chars == Digits \cup {" ", ",", "k"}

\* a text is the sequence of its characters
Texts == UNION {[1..n -> Chars] : n \in 0..MaxLen}

DigitValue == [c \in Digits |-> IF c = "0" THEN 0 ELSE IF c = "1" THEN 1 ELSE 5]

\* re.sub(r'[^\d]', '', s): what is left are the digits
Clean(s) == SelectSeq(s, LAMBDA c : c \in Digits)

RECURSIVE ParseInt(_)
\* int(clean) on a string of digits: leading zeros do not count
ParseInt(clean) ==
    IF clean = <<>> THEN 0
    ELSE 10 * ParseInt(SubSeq(clean, 1, Len(clean) - 1))
           + DigitValue[clean[Len(clean)]]

\* normalize_price with `int(clean) or None` in its last line
normalize_price_falsy(price_str) ==
    IF price_str = <<>> THEN None
    ELSE LET clean == Clean(price_str) IN
         IF clean # <<>> /\ ParseInt(clean) # 0 THEN Number(ParseInt(clean))
         ELSE None

\* normalize_price lines 15-19
normalize_price(price_str) ==
    IF price_str = <<>> THEN None
    ELSE LET clean == Clean(price_str) IN
         IF clean # <<>> THEN Number(ParseInt(clean)) ELSE None

\* normalize_mileage lines 23-27
normalize_mileage(mileage_str) ==
    IF mileage_str = <<>> THEN None
    ELSE LET clean == Clean(mileage_str) IN
         IF clean # <<>> THEN Number(ParseInt(clean)) ELSE None

RECURSIVE Match(_, _)
\* \d+ tried at the head of s: the digits taken so far grow while the next
\* character is a digit
Match(s, taken) ==
    IF s # <<>> /\ Head(s) \in Digits
    THEN Match(Tail(s), Append(taken, Head(s)))
    ELSE taken

RECURSIVE Search(_)
\* re.search(r'\d+', s): the match at the leftmost position that has one,
\* <<>> when there is none
Search(s) ==
    IF s = <<>> THEN <<>>
    ELSE IF Head(s) \in Digits THEN Match(s, <<>>)
    ELSE Search(Tail(s))

\* normalize_engine_power that takes every digit, as normalize_price does
normalize_engine_power_all(power_str) ==
    IF power_str = <<>> THEN None
    ELSE LET clean == Clean(power_str) IN
         IF clean # <<>> THEN Number(ParseInt(clean)) ELSE None

\* normalize_engine_power lines 31-35
normalize_engine_power(power_str) ==
    IF power_str = <<>> THEN None
    ELSE LET match == Search(power_str) IN
         IF match # <<>> THEN Number(ParseInt(match)) ELSE None

InitNormalize ==
    /\ InitWith([p \in 1..MaxPage |-> <<>>], MaxPage, 1)
    /\ NoFetch
    /\ NoGather
    /\ NoItem
    /\ page_html = Layout(FALSE, FALSE, <<>>, <<>>)
    /\ extracted = <<>>
    /\ xpc = "idle"
    /\ text \in Texts
    /\ value = None
    /\ fn = "call"

NormalizePrice ==
    /\ fn = "call"
    /\ value' = normalize_price(text)
    /\ fn' = "normalize_price"
    /\ UNCHANGED outsideCalls
    /\ UNCHANGED <<page_html, extracted, xpc, text>>

NormalizeMileage ==
    /\ fn = "call"
    /\ value' = normalize_mileage(text)
    /\ fn' = "normalize_mileage"
    /\ UNCHANGED outsideCalls
    /\ UNCHANGED <<page_html, extracted, xpc, text>>

NormalizeEnginePower ==
    /\ fn = "call"
    /\ value' = normalize_engine_power(text)
    /\ fn' = "normalize_engine_power"
    /\ UNCHANGED outsideCalls
    /\ UNCHANGED <<page_html, extracted, xpc, text>>

NextNormalize == NormalizePrice \/ NormalizeMileage \/ NormalizeEnginePower

SpecNormalize == InitNormalize /\ [][NextNormalize]_vars

\* ----------------------------------------------------------------- claims
\* every listing the listing pages of the configured range hold: the
\* identifiers one uninterrupted run with no failed fetch ends with
SiteUrls == UNION {Range(site[p]) : p \in start_page..end_page}

Uncompleted == Range(all_listing_data) \ scraped_urls

Killed == lastExit = "kill"

\* C1: a crawl that was killed and rerun to the end (no fetch failing, no
\* signal) ends with records whose identifiers are those of one
\* uninterrupted run, none of them twice.
C1_IdempotentResume ==
    (pc = "done" /\ Killed)
        => /\ Range(scraped_listings) = SiteUrls
           /\ NoDup(scraped_listings)

\* C2: the final checkpoint an interrupted run has written holds as pending
\* exactly the discovered items that have not completed, as completed
\* exactly the scraped ones, and the checkpoint file is still there.
C2_InterruptedCheckpoint ==
    (pc = "done" /\ should_stop /\ saveRet = "done")
        => /\ ckptFile.st = "full"
           /\ Range(ckptFile.pending_urls) = Uncompleted
           /\ ckptFile.scraped_urls = scraped_urls

\* C3: after the process died inside save_checkpoint, the next start
\* rehydrates the complete state of before the save or the complete state
\* being saved.
C3_CheckpointAtomic ==
    (pc = "start" /\ Killed /\ diedInSave)
        => Rehydrate(ckptFile, dataFile) \in {saveOld, saveNew}

\* C4: no URL of a written checkpoint is both in scraped_urls and in
\* pending_urls.
C4_NoDoubleWork ==
    ckptFile.st = "full"
        => ckptFile.scraped_urls \cap Range(ckptFile.pending_urls) = {}

\* C5: an item whose detail fetch failed in an uninterrupted run is pending
\* in the checkpoint after the run and not in the records, and the next run
\* fetches nothing but such items.
C5_FailedStaysPending ==
    /\ (pc = "done" /\ ~should_stop)
         => \A u \in failedItems \ scraped_urls :
                /\ ckptFile.st = "full"
                /\ u \in Range(ckptFile.pending_urls)
                /\ u \notin Range(scraped_listings)
    /\ (lastExit = "finished" /\ pc # "start" /\ prevFailed # {})
         => detailReqs \subseteq prevFailed

\* C6: the state rehydrated after a kill misses at most auto_save_interval
\* of the items that had completed before the kill.
C6_LosesAtMostOneBatch ==
    (pc = "start" /\ Killed)
        => Cardinality(Range(killListings)
                       \ Range(Rehydrate(ckptFile, dataFile).listings))
               <= auto_save_interval

\* C7: the checkpoint file is removed only in a run whose stop flag is not
\* set and in which no discovered item is uncompleted.
C7_ClearedOnlyWhenClean ==
    [][(ckptFile.st # "absent" /\ ckptFile'.st = "absent")
          => (~should_stop /\ Uncompleted = {})]_vars

\* C8: the clean run over ScenarioPages pages of ScenarioPerPage listings
\* ends with one record per listing, nothing pending, every page completed
\* and both files removed.
C8_CleanRun ==
    pc = "done"
        => /\ Len(scraped_listings) = ScenarioPages * ScenarioPerPage
           /\ Range(scraped_listings) = 1..(ScenarioPages * ScenarioPerPage)
           /\ Uncompleted = {}
           /\ pages_completed = 1..ScenarioPages
           /\ ckptFile.st = "absent"
           /\ dataFile.st = "absent"

C8_Witness ==
    /\ pc = "done"
    /\ Cardinality(SiteUrls) = ScenarioPages * ScenarioPerPage
    /\ Len(all_listing_data) = ScenarioPages * ScenarioPerPage

\* C9: no two entries of scraped_listings share an identifier.
C9_UniqueWithinRun == NoDup(scraped_listings)

\* C10: a resumed run requests no listing page of the loaded
\* pages_completed and no detail page of the loaded scraped_urls.
C10_NoRefetch ==
    /\ pageReqs \cap loadedPages = {}
    /\ detailReqs \cap loadedScraped = {}

C10_Witness ==
    /\ loadedScraped # {}
    /\ loadedPages # {}
    /\ detailReqs # {}

\* C11: a checkpoint written after an item's detail fetch failed for good
\* lists the item in pending_urls and not in scraped_urls.
C11_FailedInLaterCheckpoints ==
    pc \in {"save_data", "save_data_dump"}
        => \A u \in failedItems \ scraped_urls :
               /\ u \in Range(ckptFile.pending_urls)
               /\ u \notin ckptFile.scraped_urls

\* the failures on which fetch_page calls _rotate_proxy
RotatingFailures == {"403", "429", "TimeoutError", "ClientError"}

\* a call with retry_count = 3 over a pool of 3 proxies has returned after
\* HTTP 429 on every attempt
AlwaysThrottled ==
    /\ fpc = "idle"
    /\ result = "None"
    /\ retry_count = 3
    /\ Len(proxy_urls) = 3
    /\ outcomes = <<"429", "429", "429">>

\* C12: such a call performs exactly 2 proxy rotations.
C12_TwoRotations == AlwaysThrottled => rotations = 2

\* C12 as the code has it: such a call performs exactly 3 rotations, one
\* after each attempt, the last attempt included, so that each attempt
\* goes through another proxy and the cursor ends where it began.
C12_ThreeRotations ==
    AlwaysThrottled
        => /\ rotations = 3
           /\ proxies[2] # proxies[1]
           /\ proxies[3] # proxies[2]
           /\ get_current_proxy # proxies[3]
           /\ get_current_proxy = proxies[1]

C12_Witness == AlwaysThrottled /\ Len(proxies) = 3

\* C13: an attempt of fetch_page calls _rotate_proxy if and only if it ends
\* in 403, 429, a timeout or a connection error; after any other end of an
\* attempt the cursor is where it was.
C13_RotationTriggers ==
    [][Len(outcomes') = Len(outcomes) + 1
         => LET r == outcomes'[Len(outcomes')] IN
            /\ (rotations' = rotations + 1) <=> (r \in RotatingFailures)
            /\ (r \notin RotatingFailures)
                 => /\ rotations' = rotations
                    /\ current_proxy_index' = current_proxy_index
            /\ (r \in RotatingFailures /\ Len(proxy_urls) >= 2)
                 => current_proxy_index' # current_proxy_index]_vars

C13_Witness ==
    /\ Len(proxy_urls) >= 2
    /\ outcomes = <<"500", "TimeoutError", "Exception">>
    /\ rotations = 1

\* the time slept between the end of attempt k - 1 (the start of the call
\* for k = 1) and the request of attempt k
SleptBefore(k) == delays[k] + (IF k >= 2 THEN backoffs[k - 1] ELSE 0)

\* backoff sleeps happen only between two attempts
OnlyBetweenAttempts ==
    /\ Len(backoffs) <= Len(outcomes)
    /\ (result \in {"text", "None"} /\ outcomes # <<>>)
         => Len(backoffs) = Len(outcomes) - 1

\* C14: the delay before attempt k is exactly b * 2^(k-2) for k >= 2 and 0
\* before attempt 1, and delays fall only between attempts.
C14_BackoffOnly ==
    /\ \A k \in 1..Len(delays) :
          SleptBefore(k) = IF k = 1 THEN 0 ELSE BackoffBaseMs * 2 ^ (k - 2)
    /\ OnlyBetweenAttempts

\* C14 as the code has it: the backoff before attempt k is exactly
\* b * 2^(k-2) for k >= 2, there is none before attempt 1 and none after
\* the last attempt; every attempt, the first included, is preceded in
\* addition by delay_between_requests.
C14_BackoffPlusDelay ==
    /\ \A k \in 1..Len(delays) :
          /\ delays[k] = delay_between_requests
          /\ k >= 2 => backoffs[k - 1] = BackoffBaseMs * 2 ^ (k - 2)
          /\ SleptBefore(k) = delay_between_requests
                 + (IF k = 1 THEN 0 ELSE BackoffBaseMs * 2 ^ (k - 2))
    /\ OnlyBetweenAttempts

C14_Witness ==
    /\ Len(delays) = 3
    /\ Len(backoffs) = 2
    /\ delay_between_requests > 0
    /\ result = "None"

\* C15: fetch_page makes at most retry_count attempts, returns the body at
\* the first attempt that succeeds, with no attempt and no rotation after
\* it, and returns None only after exactly retry_count failed attempts.
C15_BoundedAttempts ==
    /\ Len(outcomes) <= retry_count
    /\ Len(proxies) <= retry_count
    /\ \A k \in 1..(Len(outcomes) - 1) : outcomes[k] # "200"
    /\ result = "text"
         => /\ outcomes[Len(outcomes)] = "200"
            /\ Len(proxies) = Len(outcomes)
            /\ rotations = Cardinality({k \in 1..Len(outcomes) :
                                           outcomes[k] \in RotatingFailures})
    /\ result = "None"
         => /\ Len(outcomes) = retry_count
            /\ Len(proxies) = retry_count
            /\ \A k \in 1..Len(outcomes) : outcomes[k] # "200"
    /\ result = "pending" => \A k \in 1..Len(outcomes) : outcomes[k] # "200"

C15_Witness ==
    /\ result = "text"
    /\ Len(outcomes) = 3
    /\ rotations = 1

\* the endpoint that follows e in the pool, round robin
Position(e) == CHOOSE i \in 1..Len(proxy_urls) : proxy_urls[i] = e
Following(e) == proxy_urls[(Position(e) % Len(proxy_urls)) + 1]

\* the endpoint due after an attempt through e that ended in r
DueAfter(e, r) ==
    IF r \in RotatingFailures /\ Len(proxy_urls) >= 2
    THEN Following(e) ELSE e

\* C16: a rotation moves the cursor to the next endpoint round robin in a
\* pool of two or more and nowhere in a smaller pool; the cursor stays
\* inside a non-empty pool; the proxy of a request is the endpoint at the
\* cursor, None for an empty pool; no endpoint is stepped over.
C16_ProxyCursor ==
    /\ proxy_urls # <<>>
         => current_proxy_index \in 0..(Len(proxy_urls) - 1)
    /\ \A k \in 1..Len(proxies) :
          IF proxy_urls = <<>> THEN proxies[k] = NoProxy
          ELSE proxies[k] \in Range(proxy_urls)
    /\ \A k \in 1..Len(outcomes) :
          LET due == DueAfter(proxies[k], outcomes[k]) IN
          IF k < Len(proxies) THEN proxies[k + 1] = due
          ELSE get_current_proxy = due

C16_Witness ==
    /\ Len(proxy_urls) = 3
    /\ Len(outcomes) = 2
    /\ proxies = <<3, 1>>
    /\ current_proxy_index = 1

\* HTTP requests in flight: the listing-page request and the detail and
\* phone requests of the tasks
InFlight ==
    (IF page.at = "get" THEN 1 ELSE 0)
      + Cardinality({i \in 1..Len(tasks) : tasks[i].at \in {"get", "phone"}})

\* C17: at every instant the number of requests in flight is at most the
\* configured concurrency limit.
C17_ConcurrencyBound == InFlight <= max_workers

C17_Witness ==
    /\ max_workers >= 2
    /\ InFlight = max_workers
    /\ \E i \in 1..Len(tasks) :
          tasks[i].at = "created" /\ tasks[i].id \notin scraped_ids

C19_PageOrdering ==
    [][(pageReqs' # pageReqs /\ pageReqs' # {})
         => \A k \in pageReqs' \ pageReqs :
               /\ pc # "page_fetch"
               /\ \A p \in pageReqs : p < k
               /\ \A p \in start_page..(k - 1) : p \in pages_completed]_vars

C19_Witness ==
    /\ pc = "page_fetch"
    /\ pageReqs = {1, 2}
    /\ page_num = 2
    /\ loadedPages = {}

\* C20: the crawler never raises while loading, and when a file is missing,
\* is not JSON or holds a document of another shape, what that file
\* contributes is empty: with such a checkpoint the run starts at the first
\* page with nothing completed, pending or recorded, with such a data
\* backup it starts without records.
C20_DamagedLoadsEmpty ==
    /\ pc # "raised"
    /\ (pc = "page_loop" /\ ckptFile.st # "full")
         => /\ page_num = start_page
            /\ pages_completed = {}
            /\ all_listing_data = <<>>
            /\ scraped_urls = {}
            /\ scraped_listings = <<>>
    /\ (pc = "page_loop" /\ dataFile.st # "full") => scraped_listings = <<>>

\* C21: whenever a checkpoint is about to be written, the URL of every
\* record in scraped_listings is in scraped_urls.
C21_RecordsAreCompleted ==
    pc = "save_open" => Range(scraped_listings) \subseteq scraped_urls

\* scrape_listing has just returned for the item in hand
Returns == pc # "auto_save" /\ pc' = "auto_save"

\* the item in hand
Current == data_to_scrape[idx]

\* the step appends one record of the item in hand, with what `record` holds,
\* and marks the item completed
Yields(record) ==
    /\ scraped_listings' = Append(scraped_listings, Current)
    /\ details' = Append(details, record)
    /\ scraped_urls' = scraped_urls \cup {Current}

\* C22: when the parsing of a fetched detail page fails, the call still
\* builds a record with empty columns, and when it returns that record is
\* appended and the item is marked completed.
C22_ParseFailureYieldsRecord ==
    [][/\ (pc = "parse" /\ pc' # "parse" /\ html # "page")
            => listing'.fields = "empty"
       /\ (Returns /\ pc # "detail_fetch" /\ html # "page")
            => Yields(listing)]_vars

\* C23: when the phone request of an item fails, the record keeps its
\* parsed columns with an empty seller_phone and no record, completed URL
\* or pending item changes at that step; the call then returns that record,
\* which is appended after the earlier ones, and the item is marked
\* completed.
C23_PhoneFailureKeepsRecord ==
    [][/\ (pc = "phone_fetch" /\ pc' # "phone_fetch"
              /\ listing'.phone_response \in PhoneFailures)
            => /\ pc' = "listing_ok"
               /\ listing'.seller_phone = ""
               /\ listing'.fields = listing.fields
               /\ UNCHANGED <<scraped_listings, details, scraped_urls,
                              data_to_scrape, idx>>
       /\ (pc = "listing_ok" /\ pc' # "listing_ok")
            => Returns /\ Yields(listing) /\ UNCHANGED <<data_to_scrape, idx>>
       /\ (Returns /\ listing'.phone_response \in PhoneFailures
              /\ pc # "detail_fetch" /\ pc # "parse")
            => Yields(listing)]_vars

\* two records, the first with its phone numbers and the second from a
\* page whose phone request failed, both completed
C23_Witness ==
    /\ Len(details) = 2
    /\ details[1].seller_phone = "phones"
    /\ details[2].phone_response \in PhoneFailures
    /\ details[2].seller_phone = ""
    /\ details[2].fields = "filled"
    /\ Range(scraped_listings) \subseteq scraped_urls
    /\ pc = "auto_save"

\* C24: within one run a detail request is never issued for an item whose
\* detail fetch has already failed in that run.
C24_FailedNotDispatchedAgain ==
    [][(pc = "scrape_listing" /\ pc' = "detail_fetch")
          => Current \notin failedItems]_vars

\* discovery has just ended
DiscoveryEnds == pc \in {"page_loop", "page_fetch"} /\ pc' = "filter"

\* C25: when discovery ends and no stop was requested, every page of
\* start_page..end_page is completed, either loaded as completed or
\* requested by this process; and whatever a page request returns, the loop
\* goes on to the next page.
C25_EmptyPageGoesOn ==
    [][/\ (DiscoveryEnds /\ ~should_stop)
            => \A p \in start_page..end_page :
                   /\ p \in pages_completed
                   /\ p \in loadedPages \cup pageReqs
       /\ (pc = "page_fetch" /\ pc' \notin {"page_fetch", "start"})
            => /\ page_num' = page_num + 1
               /\ saveRet' = "page_loop"
               /\ pc' = "save_open"]_vars

\* discovery ended without a stop after a first page without cards and a
\* second page with cards
C25_Witness ==
    /\ pc = "filter"
    /\ ~should_stop
    /\ site[1] = <<>>
    /\ pageReqs = {1, 2}
    /\ pages_completed = {1, 2}
    /\ all_listing_data # <<>>

\* C26: whatever the requests return (no response, any status, a body of
\* any shape), no exception leaves scrape_all_pages: the run is never ended
\* by one.
C26_NothingEscapes ==
    pc # "raised"

\* C27: after a checkpoint write that failed, the loop over the pages does
\* not go on: no page request follows the failed save.
C27_FailedSaveAborts ==
    [][page.at = "save_failed" => page'.at \notin {"start", "get"}]_vars

\* save_checkpoint has just returned
SaveReturns == pc \in SavePcs /\ pc' \notin SavePcs /\ pc' # "start"

\* C28: when save_checkpoint returns, what load_checkpoint and
\* load_data_backup would rehydrate from the two files is the state that
\* was saved: the same completed pages, completed URLs, pending items and
\* records, also when the saved state has no records.
C28_RoundTrip ==
    [][SaveReturns => Rehydrate(ckptFile', dataFile') = saveNew]_vars

\* the loop is at a call of _save_checkpoint, which has no await: the call
\* is one step of the event loop
Saving == page.at \in {"batch", "done"}

\* a task that has not returned yet
Running(i) == tasks[i].at \notin {"none", "dict"}

\* C29: while a checkpoint is written no worker task is running, so none
\* can change what the write reads: every task of the page has returned
\* and its result has been taken before _save_checkpoint is called.
C29_SerializedSaves ==
    Saving => \A i \in 1..Len(tasks) : ~Running(i)

\* a save after a page of two tasks, one with a record and one without
C29_Witness ==
    /\ page.at = "batch"
    /\ Len(tasks) >= 2
    /\ \E i, j \in 1..Len(tasks) :
          tasks[i].at = "dict" /\ tasks[j].at = "none"
    /\ \E i \in 1..Len(tasks) :
          tasks[i].at = "dict" /\ tasks[i].id \in scraped_ids

\* C30: started on a checkpoint of the older build, the run rehydrates the
\* completed pages, the completed URLs and the pending items of the file,
\* and goes on without an exception.
C30_OldCheckpointResumes ==
    /\ pc # "raised"
    /\ (pc = "page_loop" /\ pageReqs = {})
         => /\ pages_completed = ckptFile.pages_completed
            /\ scraped_urls = ckptFile.scraped_urls
            /\ all_listing_data = ckptFile.pending_urls

\* C31: whatever the layout of the page, every work item that page
\* discovery returns is a card of the regular section: a card that is only
\* in a promoted section is not returned.
C31_RegularOnly ==
    xpc # "call" => Range(extracted) \subseteq Range(page_html.regular)

HasDigit(s) == \E i \in 1..Len(s) : s[i] \in Digits

RECURSIVE DigitsInOrder(_, _)
\* the number read off the digits of s from left to right, whatever stands
\* between them
DigitsInOrder(s, acc) ==
    IF s = <<>> THEN acc
    ELSE IF Head(s) \in Digits
         THEN DigitsInOrder(Tail(s), 10 * acc + DigitValue[Head(s)])
         ELSE DigitsInOrder(Tail(s), acc)

\* C32: normalize_price and normalize_mileage return the integer formed by
\* all digits of the text in their order, None for a text without a digit
\* (the empty text included), and so 0, not None, for a text whose only
\* digit is 0.
C32_AllDigits ==
    fn \in {"normalize_price", "normalize_mileage"}
        => value = IF HasDigit(text) THEN Number(DigitsInOrder(text, 0))
                   ELSE None

\* "0 k", a mileage of zero with its unit
C32_Witness ==
    /\ fn = "normalize_mileage"
    /\ text = <<"0", " ", "k">>
    /\ value = Number(0)

\* the first maximal run of digits of s: it starts at the first digit and
\* ends before the first character after it that is not a digit
FirstRun(s) ==
    LET i == CHOOSE i \in 1..Len(s) :
                 s[i] \in Digits /\ \A k \in 1..(i - 1) : s[k] \notin Digits
        j == CHOOSE j \in i..Len(s) :
                 /\ \A k \in i..j : s[k] \in Digits
                 /\ j = Len(s) \/ s[j + 1] \notin Digits
    IN  SubSeq(s, i, j)

\* C33: normalize_engine_power returns the value of the first maximal run
\* of digits of the text, and None for a text without a digit (the empty
\* text included).
C33_FirstRun ==
    fn = "normalize_engine_power"
        => value = IF HasDigit(text)
                   THEN Number(DigitsInOrder(FirstRun(text), 0))
                   ELSE None

\* "1k5": the run ends at the letter and the later digit is not taken
C33_Witness ==
    /\ fn = "normalize_engine_power"
    /\ text = <<"1", "k", "5">>
    /\ value = Number(1)

\* C34: in the state a starting process rehydrates from the two files,
\* every URL of scraped_urls has its record in scraped_listings.
C34_CompletedHaveRecords ==
    pc = "start"
        => LET resumed == Rehydrate(ckptFile, dataFile) IN
           resumed.scraped_urls \subseteq Range(resumed.listings)

\* C35: a page whose listing-page fetch failed on all attempts is not added
\* to pages_completed (here a page that has cards, so that the step is the
\* failed fetch and not the fetch of a page without cards).
C35_FailedPageUncompleted ==
    [][(ScrapePageFail /\ site[page_num] # <<>>)
          => page_num \notin pages_completed']_vars

\* the results scrape_page appends to listings_data at lines 376-379 when
\* gather has returned: one record per task that returned a dict
Appended(id) ==
    {i \in 1..Len(tasks) : tasks[i].at = "dict" /\ tasks[i].id = id}

\* C36: when the results of a page are taken, at most one record is
\* appended for any listing id, and none for an id that was already in
\* scraped_ids.
C36_OneRecordPerId ==
    [][(page.at = "gather" /\ page'.at = "batch")
          => \A id \in 1..MaxTasks :
                 /\ Cardinality(Appended(id)) <= 1
                 /\ id \in scraped_ids => Appended(id) = {}]_vars

\* the tasks inside `async with self.semaphore`
Holders == {i \in 1..Len(tasks) : tasks[i].at \in {"get", "sleep", "phone"}}

\* the tasks that have not passed line 242 yet
Waiting == {i \in 1..Len(tasks) : tasks[i].at = "created"}

\* C37: the free permits are the limit less the tasks inside the semaphore
\* (each holds one permit, taken once, and gives it back however it ends);
\* a task waits for a permit only while it holds none, so while a task
\* waits for a permit that is not free another task holds it and can go
\* on; and when the tasks of a page have all returned every permit is free.
C37_PermitsReturned ==
    /\ semaphore = max_workers - Cardinality(Holders)
    /\ (Waiting # {} /\ semaphore = 0) => Holders # {}
    /\ Holders = {} => semaphore = max_workers

\* a limit of one permit: one task holds it for its phone request, another
\* waits for it, a third has returned after its fetch failed
C37_Witness ==
    /\ max_workers = 1
    /\ semaphore = 0
    /\ \E i, j, k \in 1..Len(tasks) :
          /\ tasks[i].at = "phone"
          /\ tasks[j].at = "created" /\ tasks[j].id \notin scraped_ids
          /\ tasks[k].at = "none" /\ tasks[k].id \notin scraped_ids

\* what the first state holds is not lost in the second
Grown(old, new) ==
    /\ old.scraped_urls \subseteq new.scraped_urls
    /\ old.pages_completed \subseteq new.pages_completed
    /\ Range(old.listings) \subseteq Range(new.listings)

\* C38: when save_checkpoint returns, the state the two files hold has
\* every completed URL, every completed page and every record of the state
\* they held when the save began, which is the checkpoint before it of the
\* same run or the checkpoint the run was resumed from.
C38_MonotonicProgress ==
    [][SaveReturns => Grown(saveOld, Rehydrate(ckptFile', dataFile'))]_vars

====
